---- MODULE Spec2Model ----
(***************************************************************************)
(* State-machine model of the LogExecution pass                            *)
(* (src/src/passes/LogExecution.cpp).  One action per handler of the pass: *)
(* run, walkFunction, visitLoop, visitReturn, visitFunction, visitModule   *)
(* and the export-map writer at the end of run.                            *)
(***************************************************************************)
EXTENDS Integers, Sequences, FiniteSets, Bags, TLC

(***************************************************************************)
(* Bounds of the model.                                                    *)
(***************************************************************************)
MaxDepth == 2
MaxBlock == 2
MaxFuncs == 2
MaxImports == 2

(***************************************************************************)
(* Program constants.                                                      *)
(***************************************************************************)
\* LogKind, lines 63-69
FunctionEntry == 0
Return == 1
LoopHeader == 2
\* 2^30: the range of the bit-field "uint32_t id : 30", line 74
TwoTo30 == 1073741824

\* Name LOGGER("log_execution"), line 61
LOGGER == <<"l","o","g","_","e","x","e","c","u","t","i","o","n">>
\* ENV of shared-constants.h, used at lines 194 and 212
ENV == "env"
\* A default-constructed (null) Name: Function::imported() is module.is()
NullName == "<null>"

(***************************************************************************)
(* Names are sequences of characters, so that startsWith and unescape are  *)
(* computed on the characters as the code computes them.                   *)
(***************************************************************************)
NameFoo == <<"f","o","o">>
NameBar == <<"b","a","r">>
NameStd == <<"s","t","d",":",":","v">>
NameEsc == <<"a","\\","6","2","c">>
NamePool == <<NameFoo, NameStd, NameEsc, NameBar>>

\* Name::startsWith as used at line 173
StartsWith(name, prefix) ==
  /\ Len(name) >= Len(prefix)
  /\ SubSeq(name, 1, Len(prefix)) = prefix

StdPrefix == <<"s","t","d",":",":">>

(***************************************************************************)
(* Expressions.  Every node is a record with a kind.  makeSequence builds  *)
(* a two-element block.                                                    *)
(***************************************************************************)
NoExpr == [kind |-> "null"]
NopExpr == [kind |-> "nop"]
ConstExpr(v) == [kind |-> "const", value |-> v]
ReturnExpr(v) == [kind |-> "return", value |-> v]
LoopExpr(b) == [kind |-> "loop", body |-> b]
IfExpr(c, t) == [kind |-> "if", condition |-> c, ifTrue |-> t]
BlockExpr(l) == [kind |-> "block", list |-> l]
CallExpr(target, operands) == [kind |-> "call", target |-> target, operands |-> operands]

\* Builder::makeSequence, used at line 229
MakeSequence(a, b) == BlockExpr(<<a, b>>)

\* The child slots of a node, in the order the walker scans them.
ChildIdx(e) ==
  CASE e.kind = "block" -> 1..Len(e.list)
    [] e.kind = "loop" -> {1}
    [] e.kind = "if" -> {1, 2}
    [] e.kind = "return" -> IF e.value = NoExpr THEN {} ELSE {1}
    [] e.kind = "call" -> 1..Len(e.operands)
    [] OTHER -> {}

Child(e, i) ==
  CASE e.kind = "block" -> e.list[i]
    [] e.kind = "loop" -> e.body
    [] e.kind = "if" -> IF i = 1 THEN e.condition ELSE e.ifTrue
    [] e.kind = "return" -> e.value
    [] e.kind = "call" -> e.operands[i]

SetChild(e, i, c) ==
  CASE e.kind = "block" -> [e EXCEPT !.list[i] = c]
    [] e.kind = "loop" -> [e EXCEPT !.body = c]
    [] e.kind = "if" -> IF i = 1 THEN [e EXCEPT !.condition = c] ELSE [e EXCEPT !.ifTrue = c]
    [] e.kind = "return" -> [e EXCEPT !.value = c]
    [] e.kind = "call" -> [e EXCEPT !.operands[i] = c]

\* The node a walker task points at: the expression slot reached by path p.
RECURSIVE Get(_, _)
Get(e, p) == IF p = <<>> THEN e ELSE Get(Child(e, Head(p)), Tail(p))

\* The tree with the slot at path p overwritten.
RECURSIVE Put(_, _, _)
Put(e, p, new) ==
  IF p = <<>> THEN new
  ELSE SetChild(e, Head(p), Put(Child(e, Head(p)), Tail(p), new))

\* PostWalker: the slots of the loops and returns of e, children before the
\* node that contains them, children in scan order.
RECURSIVE PostOrder(_, _)
RECURSIVE PostOrderFrom(_, _, _)
PostOrderFrom(e, path, i) ==
  IF i \notin ChildIdx(e) THEN <<>>
  ELSE PostOrder(Child(e, i), Append(path, i)) \o PostOrderFrom(e, path, i + 1)

PostOrder(e, path) ==
  PostOrderFrom(e, path, 1)
    \o (IF e.kind \in {"loop", "return"} THEN <<path>> ELSE <<>>)

(***************************************************************************)
(* LogID: a 32-bit union of raw and the bit-fields id:30, kind:2.          *)
(* A uint32_t is kept as [hi, lo]: its high 2 bits and its low 30 bits.    *)
(* raw is the int32_t the union reads back.                                *)
(***************************************************************************)
U32(hi, lo) == [hi |-> hi, lo |-> lo]

\* nextID++ on a uint32_t, line 224
Inc32(u) ==
  IF u.lo = TwoTo30 - 1 THEN U32((u.hi + 1) % 4, 0) ELSE U32(u.hi, u.lo + 1)

\* id.raw after id.id and id.kind were stored (id in the low 30 bits, kind in
\* the high 2 bits), read as int32_t.
LogIDRaw(id30, kind) ==
  IF kind >= 2 THEN (kind - 4) * TwoTo30 + id30 ELSE kind * TwoTo30 + id30

\* A faulty variant: the identifier computed arithmetically, nextID + (kind << 30),
\* without truncating the sequence number to 30 bits.
PackLogID_NoMask(nid, kind) == LogIDRaw(nid.lo, (nid.hi + kind) % 4)

\* "id.id = nextID++; id.kind = kind;", lines 223-225: the store to the
\* 30-bit field truncates nextID to its low 30 bits.
PackLogID(nid, kind) == LogIDRaw(nid.lo, kind)

\* Decoding a raw identifier: its high 2 bits and its low 30 bits.
RawKind(raw) ==
  IF raw < 0 THEN 2 + ((raw + TwoTo30 + TwoTo30) \div TwoTo30) ELSE raw \div TwoTo30

RawId(raw) ==
  IF raw < 0 THEN (raw + TwoTo30 + TwoTo30) % TwoTo30 ELSE raw % TwoTo30

\* builder.makeCall(LOGGER, {builder.makeConst(id.raw)}, Type::none), line 230
LogCall(raw) == CallExpr(LOGGER, <<ConstExpr(raw)>>)

IsLogCall(e) ==
  /\ e.kind = "call"
  /\ e.target = LOGGER
  /\ Len(e.operands) = 1
  /\ e.operands[1].kind = "const"

\* A faulty variant: the sequence counter is not advanced.
MakeLogCall_NoInc(curr, kind, nid) ==
  [expr |-> MakeSequence(LogCall(PackLogID(nid, kind)), curr),
   nextID |-> nid,
   outLogId |-> nid.lo]

\* makeLogCall, lines 221-231.  nid is nextID before the call; the result
\* holds the new expression, nextID after the call and *outLogId.
MakeLogCall(curr, kind, nid) ==
  [expr |-> MakeSequence(LogCall(PackLogID(nid, kind)), curr),
   nextID |-> Inc32(nid),
   outLogId |-> nid.lo]

(***************************************************************************)
(* The handlers' effect on an expression.  nid is nextID before the call.  *)
(***************************************************************************)
\* A faulty variant: the loop header is logged with the Return kind.
VisitLoopExpr_WrongKind(curr, nid) ==
  LET r == MakeLogCall(curr.body, Return, nid)
  IN [expr |-> [curr EXCEPT !.body = r.expr], nextID |-> r.nextID]

\* visitLoop, lines 140-142: curr->body = makeLogCall(curr->body, LoopHeader)
VisitLoopExpr(curr, nid) ==
  LET r == MakeLogCall(curr.body, LoopHeader, nid)
  IN [expr |-> [curr EXCEPT !.body = r.expr], nextID |-> r.nextID]

\* visitReturn, lines 144-146: replaceCurrent(makeLogCall(curr, Return))
VisitReturnExpr(curr, nid) ==
  LET r == MakeLogCall(curr, Return, nid)
  IN [expr |-> r.expr, nextID |-> r.nextID]

\* A faulty variant: the export association records the counter after the mint
\* instead of the minted sequence number.
VisitFunctionBody_WrongId(body, nid) ==
  LET tail == IF body.kind = "block" /\ Len(body.list) > 0
              THEN LET r == MakeLogCall(body.list[Len(body.list)], Return, nid)
                   IN [expr |-> [body EXCEPT !.list[Len(body.list)] = r.expr],
                       nextID |-> r.nextID]
              ELSE [expr |-> body, nextID |-> nid]
      entry == MakeLogCall(tail.expr, FunctionEntry, tail.nextID)
  IN [expr |-> entry.expr, nextID |-> entry.nextID, functionId |-> entry.nextID.lo]

\* visitFunction for a function with a body, lines 152-158: the last
\* statement of a non-empty block body is wrapped with a Return log call,
\* then the body is wrapped with the FunctionEntry log call.
VisitFunctionBody(body, nid) ==
  LET tail == IF body.kind = "block" /\ Len(body.list) > 0
              THEN LET r == MakeLogCall(body.list[Len(body.list)], Return, nid)
                   IN [expr |-> [body EXCEPT !.list[Len(body.list)] = r.expr],
                       nextID |-> r.nextID]
              ELSE [expr |-> body, nextID |-> nid]
      entry == MakeLogCall(tail.expr, FunctionEntry, tail.nextID)
  IN [expr |-> entry.expr, nextID |-> entry.nextID, functionId |-> entry.outLogId]

(***************************************************************************)
(* The name filter of walkFunction.                                        *)
(***************************************************************************)
\* A faulty variant: the ignore-list is consulted even when an include-list is given.
Ignore_BothLists(name, includeList, ignoreList, nostd) ==
  \/ (includeList # {} /\ name \notin includeList)
  \/ name \in ignoreList
  \/ (includeList = {} /\ nostd /\ StartsWith(name, StdPrefix))

\* The value of "ignore" at line 178, lines 165-175.
Ignore(name, includeList, ignoreList, nostd) ==
  IF Cardinality(includeList) > 0
  THEN name \notin includeList
  ELSE \/ name \in ignoreList
       \/ (nostd /\ StartsWith(name, StdPrefix))

(***************************************************************************)
(* The import resolution of visitModule.                                   *)
(***************************************************************************)
Imported(func) == func.module # NullName

\* The module of the first function of funcs that is imported and
\* satisfies the test, NullName when there is none: the loops with break
\* at lines 193-198 and 202-207.
RECURSIVE FirstImportModule(_, _, _)
FirstImportModule(funcs, i, onlyEnv) ==
  IF i > Len(funcs) THEN NullName
  ELSE IF Imported(funcs[i]) /\ (~onlyEnv \/ funcs[i].module = ENV)
       THEN funcs[i].module
       ELSE FirstImportModule(funcs, i + 1, onlyEnv)

\* A faulty variant: the search for an import from ENV is left out.
ResolveLoggerModule_NoEnvFirst(funcs, override) ==
  IF override # "" THEN override
  ELSE LET m2 == FirstImportModule(funcs, 1, FALSE)
       IN IF m2 = NullName THEN ENV ELSE m2

\* import->module, lines 188-214.
ResolveLoggerModule(funcs, override) ==
  IF override # "" THEN override
  ELSE LET m1 == FirstImportModule(funcs, 1, TRUE)
           m2 == IF m1 = NullName THEN FirstImportModule(funcs, 1, FALSE) ELSE m1
       IN IF m2 = NullName THEN ENV ELSE m2

\* Builder::makeFunction(LOGGER, Signature(Type::i32, Type::none), {}) with
\* module and base set, lines 185-216.
LoggerImport(funcs, override) ==
  [name |-> LOGGER,
   module |-> ResolveLoggerModule(funcs, override),
   base |-> LOGGER,
   params |-> <<"i32">>,
   results |-> <<>>,
   body |-> NoExpr]

\* Module::addFunction refuses a function whose name the module already has
\* (function names are unique within the program).
HasFunction(funcs, name) == \E i \in 1..Len(funcs) : funcs[i].name = name

(***************************************************************************)
(* The export map writer.                                                  *)
(***************************************************************************)
HexDigits == <<"0","1","2","3","4","5","6","7","8","9","a","b","c","d","e","f">>
UpperHex == <<"A","B","C","D","E","F">>

\* isxdigit
IsXDigit(c) ==
  \/ \E i \in 1..16 : HexDigits[i] = c
  \/ \E i \in 1..6 : UpperHex[i] = c

\* The value std::from_chars gives one hexadecimal digit.
HexVal(c) ==
  IF \E i \in 1..16 : HexDigits[i] = c
  THEN (CHOOSE i \in 1..16 : HexDigits[i] = c) - 1
  ELSE (CHOOSE i \in 1..6 : UpperHex[i] = c) + 9

\* The characters of the codes '0'..'9', 'A'..'Z' and 'a'..'z'.
DecDigits == <<"0","1","2","3","4","5","6","7","8","9">>
UpperCase ==
  <<"A","B","C","D","E","F","G","H","I","J","K","L","M",
    "N","O","P","Q","R","S","T","U","V","W","X","Y","Z">>
LowerCase ==
  <<"a","b","c","d","e","f","g","h","i","j","k","l","m",
    "n","o","p","q","r","s","t","u","v","w","x","y","z">>

\* (char)chr, line 243, for the codes of digits and letters (the names of
\* the model escape no other byte).
CharOf(code) ==
  CASE code \in 48..57 -> DecDigits[code - 47]
    [] code \in 65..90 -> UpperCase[code - 64]
    [] code \in 97..122 -> LowerCase[code - 96]

\* unescape, lines 234-249.  i is the loop index plus one.
RECURSIVE UnescapeFrom(_, _)
UnescapeFrom(input, i) ==
  IF i > Len(input) THEN <<>>
  ELSE IF /\ input[i] = "\\"
          /\ (i - 1) + 2 < Len(input)
          /\ IsXDigit(input[i + 1])
          /\ IsXDigit(input[i + 2])
       THEN <<CharOf(16 * HexVal(input[i + 1]) + HexVal(input[i + 2]))>>
              \o UnescapeFrom(input, i + 3)
       ELSE <<input[i]>> \o UnescapeFrom(input, i + 1)

Unescape(input) == UnescapeFrom(input, 1)

\* operator<< of a uint32_t: its decimal digits.
RECURSIVE Decimal(_)
Decimal(n) ==
  IF n < 10 THEN <<DecDigits[n + 1]>>
  ELSE Decimal(n \div 10) \o <<DecDigits[(n % 10) + 1]>>

\* A faulty variant: the name is written as stored, without unescape.
ExportLine_Raw(name, id) == Decimal(id) \o <<":">> \o name \o <<"\n">>

\* exportMapFile << id << ":" << unescape(name.str) << "\n", line 134
ExportLine(name, id) == Decimal(id) \o <<":">> \o Unescape(name) \o <<"\n">>

\* The loop of lines 133-135 over functionNameIdPairs.
RECURSIVE ExportText(_, _)
ExportText(pairs, i) ==
  IF i > Len(pairs) THEN <<>>
  ELSE ExportLine(pairs[i].name, pairs[i].id) \o ExportText(pairs, i + 1)

(***************************************************************************)
(* The state of a run.                                                     *)
(***************************************************************************)
VARIABLES
  functions,           \* module->functions, the program being instrumented
  input,               \* the functions of the module as run() received it
  options,             \* the pass arguments (getPassOptions)
  loggerModule,        \* line 82
  nextID,              \* line 83
  ignoreListNames,     \* line 84
  includeListNames,    \* line 85
  noStd,               \* line 86
  functionNameIdPairs, \* line 87
  exportMap,           \* the local of run(), line 124
  exportFile,          \* the file exportMapFile writes, lines 131-136
  pc,                  \* where the run is
  idx,                 \* the function doWalkModule is at
  todo                 \* the walker's remaining tasks in the current function

vars ==
  <<functions, input, options, loggerModule, nextID, ignoreListNames,
    includeListNames, noStd, functionNameIdPairs, exportMap, exportFile,
    pc, idx, todo>>

DefinedFunc(name, body) ==
  [name |-> name, module |-> NullName, base |-> NullName,
   params |-> <<>>, results |-> <<>>, body |-> body]

ImportedFunc(name, module) ==
  [name |-> name, module |-> module, base |-> name,
   params |-> <<>>, results |-> <<>>, body |-> NoExpr]

PassOptions(logger, ignoreList, includeList, nostd, map) ==
  [logExecution |-> logger, ignoreList |-> ignoreList,
   includeList |-> includeList, nostd |-> nostd, exportMap |-> map]

(***************************************************************************)
(* The input programs and pass arguments of the model.                     *)
(***************************************************************************)
SeqsUpTo(S, n) == UNION {[1..k -> S] : k \in 0..n}

\* Statements: a leaf under at most d loops and ifs.
RECURSIVE Chains(_)
Chains(d) ==
  IF d = 0
  THEN {NopExpr, ReturnExpr(NoExpr), ReturnExpr(ConstExpr(7))}
  ELSE Chains(d - 1)
         \cup {LoopExpr(c) : c \in Chains(d - 1)}
         \cup {IfExpr(ConstExpr(1), c) : c \in Chains(d - 1)}

\* Function bodies: a single non-block expression, or a block (empty or not).
Bodies ==
  Chains(MaxDepth)
    \cup {BlockExpr(l) : l \in SeqsUpTo(Chains(MaxDepth - 1), MaxBlock)}

\* The body the multi-function programs give each name.
BodyOf(name) ==
  CASE name = NameFoo -> BlockExpr(<<LoopExpr(NopExpr), NopExpr>>)
    [] name = NameStd -> BlockExpr(<<ReturnExpr(NoExpr)>>)
    [] name = NameEsc -> NopExpr
    [] name = NameBar -> LoopExpr(ReturnExpr(ConstExpr(7)))

IsInjective(f) == \A i, j \in DOMAIN f : i # j => f[i] # f[j]

\* Programs of up to MaxFuncs functions with bodies, under distinct names.
NameLists ==
  {l \in SeqsUpTo(1..Len(NamePool), MaxFuncs) : Len(l) >= 1 /\ IsInjective(l)}

ProgramOf(l) == [i \in 1..Len(l) |-> DefinedFunc(NamePool[l[i]], BodyOf(NamePool[l[i]]))]

ImportNames == <<<<"p","u","t","s">>, <<"g","e","t","s">>, <<"e","x","i","t">>, <<"o","p","e","n">>>>
ImportModules == {ENV, "wasi_snapshot_preview1"}

\* Up to MaxImports imported functions around one function with a body,
\* which stands at position k + 1.
ImportLists == SeqsUpTo(ImportModules, MaxImports)

ProgramWithImports(mods, k) ==
  LET imps == [i \in 1..Len(mods) |-> ImportedFunc(ImportNames[i], mods[i])]
  IN SubSeq(imps, 1, k)
       \o <<DefinedFunc(NameFoo, BodyOf(NameFoo))>>
       \o SubSeq(imps, k + 1, Len(imps))

ListPool == {NameFoo, NameStd}
MapPath == "out.map"

\* Every body shape, under the default arguments.
InputsRewrite ==
  {[functions |-> <<DefinedFunc(NameFoo, b)>>,
    options |-> PassOptions("", {}, {}, "", MapPath)] : b \in Bodies}

\* Every filter configuration, on several functions.
InputsFilter ==
  {[functions |-> ProgramOf(l),
    options |-> PassOptions("", ign, inc, nostd, map)] :
      l \in NameLists, ign \in SUBSET ListPool, inc \in SUBSET ListPool,
      nostd \in {"", "1"}, map \in {"", MapPath}}

\* Every layout of imports, with and without the override.
InputsImports ==
  UNION {{[functions |-> ProgramWithImports(mods, k),
           options |-> PassOptions(logger, ign, inc, "", "")] :
            k \in 0..Len(mods), logger \in {"", "custom"},
            ign \in {{}, {NameFoo}}, inc \in {{}, {NameBar}}} :
         mods \in ImportLists}

Inputs == InputsRewrite \cup InputsFilter \cup InputsImports

NoFile == [open |-> FALSE, text |-> <<>>]

\* The state after construction of the pass, before run().
Init ==
  /\ \E in \in Inputs :
       /\ functions = in.functions
       /\ input = in.functions
       /\ options = in.options
  /\ loggerModule = ""
  /\ nextID = U32(0, 0)
  /\ ignoreListNames = {}
  /\ includeListNames = {}
  /\ noStd = FALSE
  /\ functionNameIdPairs = <<>>
  /\ exportMap = ""
  /\ exportFile = NoFile
  /\ pc = "start"
  /\ idx = 1
  /\ todo = <<>>

(***************************************************************************)
(* The actions.                                                            *)
(***************************************************************************)
\* run, lines 92-128, up to the start of the walk.  The lists arrive as the
\* sets of names the split and escape of lines 96-116 produce.
Run ==
  /\ pc \in {"start", "done"}
  /\ input' = functions
  /\ loggerModule' = options.logExecution
  /\ ignoreListNames' = options.ignoreList
  /\ includeListNames' = options.includeList
  /\ noStd' = (options.nostd # "")
  /\ exportMap' = options.exportMap
  /\ nextID' = U32(0, 0)
  /\ functionNameIdPairs' = <<>>
  /\ pc' = "functions"
  /\ idx' = 1
  /\ todo' = <<>>
  /\ UNCHANGED <<functions, options, exportFile>>

\* doWalkModule on an imported function: visitFunction returns at once,
\* lines 149-151.
VisitImportedFunction ==
  /\ pc = "functions"
  /\ idx <= Len(functions)
  /\ Imported(functions[idx])
  /\ idx' = idx + 1
  /\ UNCHANGED <<functions, input, options, loggerModule, nextID,
                 ignoreListNames, includeListNames, noStd,
                 functionNameIdPairs, exportMap, exportFile, pc, todo>>

\* walkFunction, lines 163-181: an ignored function is not walked; for any
\* other the walker starts on the body.
WalkFunction ==
  /\ pc = "functions"
  /\ idx <= Len(functions)
  /\ ~Imported(functions[idx])
  /\ IF Ignore(functions[idx].name, includeListNames, ignoreListNames, noStd)
     THEN /\ idx' = idx + 1
          /\ UNCHANGED <<pc, todo>>
     ELSE /\ pc' = "walk"
          /\ todo' = PostOrder(functions[idx].body, <<>>)
          /\ UNCHANGED idx
  /\ UNCHANGED <<functions, input, options, loggerModule, nextID,
                 ignoreListNames, includeListNames, noStd,
                 functionNameIdPairs, exportMap, exportFile>>

\* visitLoop, lines 140-142.
VisitLoop ==
  /\ pc = "walk"
  /\ todo # <<>>
  /\ LET curr == Get(functions[idx].body, Head(todo))
         r == VisitLoopExpr(curr, nextID)
     IN /\ curr.kind = "loop"
        /\ functions' = [functions EXCEPT ![idx].body = Put(@, Head(todo), r.expr)]
        /\ nextID' = r.nextID
  /\ todo' = Tail(todo)
  /\ UNCHANGED <<input, options, loggerModule, ignoreListNames,
                 includeListNames, noStd, functionNameIdPairs, exportMap,
                 exportFile, pc, idx>>

\* visitReturn, lines 144-146.
VisitReturn ==
  /\ pc = "walk"
  /\ todo # <<>>
  /\ LET curr == Get(functions[idx].body, Head(todo))
         r == VisitReturnExpr(curr, nextID)
     IN /\ curr.kind = "return"
        /\ functions' = [functions EXCEPT ![idx].body = Put(@, Head(todo), r.expr)]
        /\ nextID' = r.nextID
  /\ todo' = Tail(todo)
  /\ UNCHANGED <<input, options, loggerModule, ignoreListNames,
                 includeListNames, noStd, functionNameIdPairs, exportMap,
                 exportFile, pc, idx>>

\* visitFunction on a function with a body, lines 148-161, after the walk
\* of the body.
VisitFunction ==
  /\ pc = "walk"
  /\ todo = <<>>
  /\ LET r == VisitFunctionBody(functions[idx].body, nextID)
     IN /\ functions' = [functions EXCEPT ![idx].body = r.expr]
        /\ nextID' = r.nextID
        /\ functionNameIdPairs' =
             Append(functionNameIdPairs,
                    [name |-> functions[idx].name, id |-> r.functionId])
  /\ pc' = "functions"
  /\ idx' = idx + 1
  /\ UNCHANGED <<input, options, loggerModule, ignoreListNames,
                 includeListNames, noStd, exportMap, exportFile, todo>>

\* visitModule, lines 183-218, once every function was visited.
\* addFunction ends the process when the module has a function of that name.
VisitModule ==
  /\ pc = "functions"
  /\ idx > Len(functions)
  /\ IF HasFunction(functions, LOGGER)
     THEN /\ pc' = "fatal"
          /\ UNCHANGED functions
     ELSE /\ pc' = "export"
          /\ functions' = Append(functions, LoggerImport(functions, loggerModule))
  /\ UNCHANGED <<input, options, loggerModule, nextID, ignoreListNames,
                 includeListNames, noStd, functionNameIdPairs, exportMap,
                 exportFile, idx, todo>>

\* The end of run, lines 130-137.
WriteExportMap ==
  /\ pc = "export"
  /\ exportFile' =
       IF Len(exportMap) > 0
       THEN [open |-> TRUE, text |-> ExportText(functionNameIdPairs, 1)]
       ELSE exportFile
  /\ pc' = "done"
  /\ UNCHANGED <<functions, input, options, loggerModule, nextID,
                 ignoreListNames, includeListNames, noStd,
                 functionNameIdPairs, exportMap, idx, todo>>

Next ==
  \/ Run
  \/ VisitImportedFunction
  \/ WalkFunction
  \/ VisitLoop
  \/ VisitReturn
  \/ VisitFunction
  \/ VisitModule
  \/ WriteExportMap

Spec == Init /\ [][Next]_vars

(***************************************************************************)
(* A run whose sequence counter stands anywhere in the 32-bit range: the   *)
(* state of a walk that has already synthesized that many log calls in     *)
(* functions before the ones at hand.                                      *)
(***************************************************************************)
CounterStarts ==
  {U32(h, l) : h \in 0..3, l \in {0, 1, TwoTo30 - 3, TwoTo30 - 2, TwoTo30 - 1}}

\* Bodies with the sites of one statement: a non-block expression, a
\* block of one statement, the empty block.
InputsCodec ==
  {[functions |-> <<DefinedFunc(NameFoo, b)>>,
    options |-> PassOptions("", {}, {}, "", MapPath)] :
      b \in Chains(MaxDepth)
               \cup {BlockExpr(l) : l \in SeqsUpTo(Chains(MaxDepth), 1)}}

InitCodec ==
  /\ \E in \in InputsCodec :
       /\ functions = in.functions
       /\ input = in.functions
       /\ options = in.options
       /\ loggerModule = in.options.logExecution
       /\ ignoreListNames = in.options.ignoreList
       /\ includeListNames = in.options.includeList
       /\ noStd = (in.options.nostd # "")
       /\ exportMap = in.options.exportMap
  /\ nextID \in CounterStarts
  /\ functionNameIdPairs = <<>>
  /\ exportFile = NoFile
  /\ pc = "functions"
  /\ idx = 1
  /\ todo = <<>>

SpecCodec == InitCodec /\ [][Next]_vars

(***************************************************************************)
(* What a run of the instrumented function logs.  The modelled bodies hold *)
(* no branch, so a loop body runs once.  An outcome is how control leaves  *)
(* the expression and how many Return-kind log calls ran before.           *)
(***************************************************************************)
Then(A, B) ==
  {o \in A : o.exit = "return"}
    \cup {[exit |-> b.exit, logs |-> a.logs + b.logs] :
            a \in {o \in A : o.exit = "fall"}, b \in B}

Fall(n) == [exit |-> "fall", logs |-> n]

RECURSIVE Outcomes(_)
RECURSIVE OutcomesFrom(_, _)
OutcomesFrom(list, i) ==
  IF i > Len(list) THEN {Fall(0)}
  ELSE Then(Outcomes(list[i]), OutcomesFrom(list, i + 1))

Outcomes(e) ==
  CASE e.kind = "block" -> OutcomesFrom(e.list, 1)
    [] e.kind = "loop" -> Outcomes(e.body)
    [] e.kind = "if" ->
         Then(Outcomes(e.condition), {Fall(0)} \cup Outcomes(e.ifTrue))
    [] e.kind = "return" ->
         Then(IF e.value = NoExpr THEN {Fall(0)} ELSE Outcomes(e.value),
              {[exit |-> "return", logs |-> 0]})
    [] e.kind = "call" ->
         IF IsLogCall(e) /\ RawKind(e.operands[1].value) = Return
         THEN {Fall(1)} ELSE {Fall(0)}
    [] OTHER -> {Fall(0)}

(***************************************************************************)
(* Observers of the program used to state the properties.                  *)
(***************************************************************************)
\* The identifiers of the log calls of e, in scan order.
RECURSIVE LogRaws(_)
RECURSIVE LogRawsFrom(_, _)
LogRawsFrom(e, i) ==
  IF i \notin ChildIdx(e) THEN <<>>
  ELSE LogRaws(Child(e, i)) \o LogRawsFrom(e, i + 1)

LogRaws(e) ==
  IF IsLogCall(e) THEN <<e.operands[1].value>> ELSE LogRawsFrom(e, 1)

RECURSIVE ProgramRaws(_, _)
ProgramRaws(funcs, i) ==
  IF i > Len(funcs) THEN <<>>
  ELSE LogRaws(funcs[i].body) \o ProgramRaws(funcs, i + 1)

SeqToBag(q) ==
  [x \in {q[i] : i \in DOMAIN q} |-> Cardinality({i \in DOMAIN q : q[i] = x})]

\* A sequence(logCall, x) as makeLogCall builds it, of the given kind.
IsLogged(e, kind) ==
  /\ e.kind = "block"
  /\ Len(e.list) = 2
  /\ IsLogCall(e.list[1])
  /\ RawKind(e.list[1].operands[1].value) = kind

\* The expression with every sequence(logCall, x) replaced by x.
RECURSIVE Erase(_)
Erase(e) ==
  CASE e.kind = "block" ->
         IF Len(e.list) = 2 /\ IsLogCall(e.list[1])
         THEN Erase(e.list[2])
         ELSE [e EXCEPT !.list = [i \in 1..Len(e.list) |-> Erase(e.list[i])]]
    [] e.kind = "loop" -> [e EXCEPT !.body = Erase(e.body)]
    [] e.kind = "if" ->
         [e EXCEPT !.condition = Erase(e.condition), !.ifTrue = Erase(e.ifTrue)]
    [] e.kind = "return" -> [e EXCEPT !.value = Erase(e.value)]
    [] OTHER -> e

\* Every loop of e has a body sequence(logCall(LoopHeader), x) and every
\* return of e is the x of a sequence(logCall(Return), x).  guarded: e is
\* itself such an x.
RECURSIVE SitesLogged(_, _)
SitesLogged(e, guarded) ==
  /\ e.kind = "return" => guarded
  /\ e.kind = "loop" => IsLogged(e.body, LoopHeader)
  /\ \A i \in ChildIdx(e) :
       SitesLogged(Child(e, i), i = 2 /\ IsLogged(e, Return))

\* The sequence numbers of the log calls of an instrumented expression, in
\* the order the post-order walk synthesizes them.
RECURSIVE WalkIds(_)
RECURSIVE WalkIdsFrom(_, _)
WalkIdsFrom(e, i) ==
  IF i \notin ChildIdx(e) THEN <<>>
  ELSE WalkIds(Child(e, i)) \o WalkIdsFrom(e, i + 1)

WalkIds(e) ==
  CASE e.kind = "block" /\ Len(e.list) = 2 /\ IsLogCall(e.list[1]) ->
         WalkIds(e.list[2]) \o <<RawId(e.list[1].operands[1].value)>>
    [] OTHER -> WalkIdsFrom(e, 1)

\* The policy of the name filter, from the pass arguments.
Policy(name) ==
  IF options.includeList # {}
  THEN name \in options.includeList
  ELSE /\ name \notin options.ignoreList
       /\ ~(options.nostd # "" /\ Len(name) >= 5 /\ SubSeq(name, 1, 5) = <<"s","t","d",":",":">>)

\* The positions of the functions the run has to instrument.
Selected == {i \in 1..Len(input) : ~Imported(input[i]) /\ Policy(input[i].name)}

PairsFor(name) ==
  {k \in 1..Len(functionNameIdPairs) : functionNameIdPairs[k].name = name}

EntryRaw(body) == body.list[1].operands[1].value

(***************************************************************************)
(* The properties.                                                         *)
(***************************************************************************)
RECURSIVE CountKind(_, _)
CountKind(raws, kind) ==
  IF raws = <<>> THEN 0
  ELSE (IF RawKind(Head(raws)) = kind THEN 1 ELSE 0) + CountKind(Tail(raws), kind)

\* C1: after a run, every function with a body that the name filter does
\* not exclude has the body sequence(logCall(FunctionEntry, n), rest): the
\* FunctionEntry log call is the first statement, it is the only log call
\* of that kind in the function, and n is the number the export
\* association list records for the function's name.
C1_EntryFirstAndRecorded ==
  pc = "done" =>
    \A i \in Selected :
      LET body == functions[i].body
      IN /\ IsLogged(body, FunctionEntry)
         /\ CountKind(LogRaws(body), FunctionEntry) = 1
         /\ Cardinality(PairsFor(functions[i].name)) = 1
         /\ \A k \in PairsFor(functions[i].name) :
              functionNameIdPairs[k].id = RawId(EntryRaw(body))

\* A finished run that instrumented a function holding a loop or a return,
\* so that its entry call is not the first call minted.
C1_Witness ==
  /\ pc = "done"
  /\ \E i \in Selected :
       /\ IsLogged(functions[i].body, FunctionEntry)
       /\ RawId(EntryRaw(functions[i].body)) >= 2

\* C2 (as claimed): every completed invocation of an instrumented function
\* runs at least one Return-kind log call before control leaves it, for
\* every body shape.
C2_EveryReturnLogged ==
  pc = "done" =>
    \A i \in Selected :
      \A o \in Outcomes(functions[i].body) : o.logs >= 1

\* C3: in every instrumented function each loop body is
\* sequence(logCall(LoopHeader), originalBody) and each return is replaced
\* by sequence(logCall(Return), originalReturn), at any depth, and taking
\* the log calls away gives back the original body.
C3_LoopsAndReturnsLogged ==
  pc = "done" =>
    \A i \in Selected :
      /\ SitesLogged(functions[i].body, FALSE)
      /\ Erase(functions[i].body) = input[i].body

\* A finished run over a body with a return inside a loop.
C3_Witness ==
  /\ pc = "done"
  /\ \E i \in Selected :
       /\ input[i].body.kind = "loop"
       /\ input[i].body.body.kind = "return"
       /\ SitesLogged(functions[i].body, FALSE)

\* The same for the body of an instrumented function whose body was orig.
\* A body that was a lone return became a block in visitReturn, so its
\* trailing Return log call was put inside that block, after its own.
FuncWalkIds(body, orig) ==
  LET inner == body.list[2]
  IN (IF orig.kind = "return"
      THEN WalkIds(inner.list[2].list[2])
             \o <<RawId(EntryRaw(inner)), RawId(EntryRaw(inner.list[2]))>>
      ELSE WalkIds(inner))
       \o <<RawId(EntryRaw(body))>>

RECURSIVE AllWalkIds(_)
AllWalkIds(i) ==
  IF i > Len(input) THEN <<>>
  ELSE (IF functions[i].body # input[i].body
        THEN FuncWalkIds(functions[i].body, input[i].body)
        ELSE <<>>) \o AllWalkIds(i + 1)

\* C4: the sequence numbers of a run start at 0 and increase by the order
\* in which the log calls are synthesized (post-order within a function,
\* functions in list order); every log call of the output carries one
\* sequence number and no two carry the same.
C4_SequenceNumbersIncrease ==
  pc = "done" =>
    /\ nextID.hi = 0
    /\ AllWalkIds(1) = [k \in 1..nextID.lo |-> k - 1]
    /\ Len(ProgramRaws(functions, 1)) = nextID.lo
    /\ Cardinality({ProgramRaws(functions, 1)[k] : k \in 1..nextID.lo}) = nextID.lo

\* A finished run that minted numbers in two functions.
C4_Witness ==
  /\ pc = "done"
  /\ Len(functionNameIdPairs) = 2
  /\ nextID.lo >= 5

\* C5: a function with a body is instrumented iff the policy of the name
\* filter holds for its name; a function for which it does not hold keeps
\* its body, gets no export association and no log call is minted for it.
C5_NameFilter ==
  pc = "done" =>
    /\ \A i \in 1..Len(input) :
         ~Imported(input[i]) =>
           IF Policy(input[i].name)
           THEN /\ functions[i].body # input[i].body
                /\ PairsFor(input[i].name) # {}
           ELSE /\ functions[i].body = input[i].body
                /\ PairsFor(input[i].name) = {}
    /\ nextID.lo = Len(ProgramRaws(functions, 1))

\* A finished run with both lists given, where a function named in both was
\* instrumented and one named in neither was not.
C5_Witness ==
  /\ pc = "done"
  /\ \E i, j \in 1..Len(input) :
       /\ input[i].name \in options.includeList \cap options.ignoreList
       /\ PairsFor(input[i].name) # {}
       /\ input[j].name \notin options.includeList \cup options.ignoreList
       /\ ~Imported(input[j])
       /\ functions[j].body = input[j].body

\* The module the binding has to get, from the input program.
ImportsOf(funcs) == {i \in 1..Len(funcs) : Imported(funcs[i])}
Least(S) == CHOOSE m \in S : \A n \in S : m <= n

ExpectedModule ==
  IF options.logExecution # "" THEN options.logExecution
  ELSE IF \E i \in ImportsOf(input) : input[i].module = "env" THEN "env"
  ELSE IF ImportsOf(input) # {} THEN input[Least(ImportsOf(input))].module
  ELSE "env"

\* C6: the module of the added log_execution binding is the override when
\* one is given, else "env" when a function is imported from "env", else
\* the module of the first imported function, else "env".
C6_LoggerModule ==
  pc \in {"export", "done"} =>
    /\ functions[Len(functions)].name = LOGGER
    /\ functions[Len(functions)].module = ExpectedModule

\* A finished run without override on a program whose first import is not
\* from "env" and whose second is.
C6_Witness ==
  /\ pc = "done"
  /\ options.logExecution = ""
  /\ ImportsOf(input) # {}
  /\ input[Least(ImportsOf(input))].module # "env"
  /\ functions[Len(functions)].module = "env"

LoggerCount(funcs) == Cardinality({i \in 1..Len(funcs) : funcs[i].name = LOGGER})

\* C7 (as claimed): no run fails, and after the functions are visited the
\* program holds exactly one function named log_execution, also when the
\* program already held one before the run.
C7_AlwaysOneLogger ==
  /\ pc # "fatal"
  /\ pc \in {"export", "done"} =>
       /\ LoggerCount(functions) = 1
       /\ functions[Len(functions)].params = <<"i32">>
       /\ functions[Len(functions)].results = <<>>

\* The names as a reader of the export map sees them.
Readable(name) ==
  CASE name = NameEsc -> <<"a","b","c">>
    [] OTHER -> name

RECURSIVE ExpectedPairs(_)
ExpectedPairs(i) ==
  IF i > Len(input) THEN <<>>
  ELSE (IF i \in Selected
        THEN <<[name |-> input[i].name, id |-> RawId(EntryRaw(functions[i].body))]>>
        ELSE <<>>) \o ExpectedPairs(i + 1)

RECURSIVE ExpectedText(_)
ExpectedText(k) ==
  IF k > Len(functionNameIdPairs) THEN <<>>
  ELSE Decimal(functionNameIdPairs[k].id) \o <<":">>
         \o Readable(functionNameIdPairs[k].name) \o <<"\n">>
         \o ExpectedText(k + 1)

\* C8: the export association list holds one (FunctionEntry sequence
\* number, name) pair per instrumented function and no other, in function
\* order, so with increasing numbers; with a sink the export map is one
\* line "number:unescaped name" per pair in that order, and with no sink
\* nothing is written.
C8_ExportAssociations ==
  pc = "done" =>
    /\ functionNameIdPairs = ExpectedPairs(1)
    /\ \A k \in 1..(Len(functionNameIdPairs) - 1) :
         functionNameIdPairs[k].id < functionNameIdPairs[k + 1].id
    /\ IF options.exportMap # ""
       THEN exportFile = [open |-> TRUE, text |-> ExpectedText(1)]
       ELSE exportFile = NoFile

\* A finished run that wrote two lines, one of them for the escaped name.
C8_Witness ==
  /\ pc = "done"
  /\ exportFile.open
  /\ Len(functionNameIdPairs) = 2
  /\ \E k \in 1..2 : functionNameIdPairs[k].name = NameEsc

\* The log calls a step adds to the program.
AddedRaws == SeqToBag(ProgramRaws(functions', 1)) (-) SeqToBag(ProgramRaws(functions, 1))

\* The counter value before the last increment that led to u.
Pred32(u) ==
  IF u.lo = 0 THEN U32((u.hi + 3) % 4, TwoTo30 - 1) ELSE U32(u.hi, u.lo - 1)

\* C9: every identifier a handler mints has, in its high 2 bits, the kind
\* of that handler's site, wherever the sequence counter stands; and when
\* the sequence number is below 2^30 its low 30 bits are that number.
C9_Step ==
  pc = "walk" =>
    IF todo # <<>>
    THEN LET kind == IF Get(functions[idx].body, Head(todo)).kind = "loop"
                     THEN LoopHeader ELSE Return
         IN /\ BagCardinality(AddedRaws) = 1
            /\ \A raw \in BagToSet(AddedRaws) :
                 /\ RawKind(raw) = kind
                 /\ nextID.hi = 0 => RawId(raw) = nextID.lo
    ELSE LET entry == EntryRaw(functions'[idx].body)
             inner == functions'[idx].body.list[2]
             trailing == inner.kind = "block" /\ Len(inner.list) > 0
         IN /\ RawKind(entry) = FunctionEntry
            /\ Pred32(nextID').hi = 0 => RawId(entry) = Pred32(nextID').lo
            /\ functionNameIdPairs'[Len(functionNameIdPairs')].id = RawId(entry)
            /\ trailing =>
                 LET raw == EntryRaw(inner.list[Len(inner.list)])
                 IN /\ RawKind(raw) = Return
                    /\ nextID.hi = 0 => RawId(raw) = nextID.lo
            /\ BagCardinality(AddedRaws) = IF trailing THEN 2 ELSE 1

C9_KindRecovered == [][C9_Step]_vars

\* A loop header was logged with a sequence counter at or above 2^30.
C9_Witness ==
  /\ Pred32(nextID).hi > 0
  /\ pc = "walk"
  /\ \E k \in 1..Len(LogRaws(functions[idx].body)) :
       RawKind(LogRaws(functions[idx].body)[k]) = LoopHeader

\* C10 (as claimed): along every path of one invocation of an instrumented
\* function at most one Return-kind log call runs before control leaves.
C10_ExitLoggedOnce ==
  pc = "done" =>
    \A i \in Selected :
      \A o \in Outcomes(functions[i].body) : o.logs <= 1

====
